---- MODULE Spec2Model ----
(***************************************************************************)
(* Model of inquirer/questions.py: the Question classes, their resolved    *)
(* properties (message, default, ignore, choices), the validation pipeline *)
(* and the Path validation, on a POSIX host.                               *)
(*                                                                         *)
(* Python values are records [t, v, items]: t is the type.  A str has in v *)
(* the sequence of its characters; None, a bool and an int have in v the   *)
(* characters of their str() form; a callable has its name there; a tuple, *)
(* a list and a TaggedValue have in items the sequence of their items.     *)
(***************************************************************************)
EXTENDS Integers, Sequences, FiniteSets, TLC

VARIABLES q, answers, fs, last

vars == <<q, answers, fs, last>>

(* ------------------------------ bounds -------------------------------- *)

\* Longest file name the modelled filesystem accepts (NAME_MAX, scaled down).
NameMax == 3

(* --------------------------- Python values ---------------------------- *)

None == [t |-> "none", v |-> <<"N", "o", "n", "e">>, items |-> <<>>]
PyTrue == [t |-> "bool", v |-> <<"T", "r", "u", "e">>, items |-> <<>>]
PyFalse == [t |-> "bool", v |-> <<"F", "a", "l", "s", "e">>, items |-> <<>>]
PyInt(cs) == [t |-> "int", v |-> cs, items |-> <<>>]
Str(cs) == [t |-> "str", v |-> cs, items |-> <<>>]
Fn(name) == [t |-> "fn", v |-> <<name>>, items |-> <<>>]
Tuple(items) == [t |-> "tuple", v |-> <<>>, items |-> items]
PyList(items) == [t |-> "list", v |-> <<>>, items |-> items]

Int0 == PyInt(<<"0">>)
Int7 == PyInt(<<"7">>)

\* TaggedValue(label, value)
TaggedValue(label, value) ==
    [t |-> "TaggedValue", v |-> <<>>, items |-> <<label, value>>]

\* str(x) of None, a bool, an int or a str
str(x) == Str(x.v)

\* bool(x): Python truthiness
bool(x) ==
    CASE x.t = "none" -> FALSE
      [] x.t = "bool" -> x = PyTrue
      [] x.t = "int" -> x.v # <<"0">>
      [] x.t = "str" -> Len(x.v) > 0
      [] x.t \in {"tuple", "list"} -> Len(x.items) > 0
      [] OTHER -> TRUE

callable(x) == x.t = "fn"

isinstance_str(x) == x.t = "str"

\* x == y in Python, for the values of the model (False == 0)
py_eq(x, y) == x = y \/ {x, y} = {Int0, PyFalse}

(* ------------------ outcomes of a call: return or raise ---------------- *)

\* A call returns val, or raises exc carrying val; it leaves the context
\* `answers` behind and has performed `steps`.
Ret(val, ctx) ==
    [ok |-> TRUE, exc |-> "", val |-> val, answers |-> ctx, steps |-> <<>>]

Raise(exc, val, ctx) ==
    [ok |-> FALSE, exc |-> exc, val |-> val, answers |-> ctx, steps |-> <<>>]

WithSteps(r, steps) == [r EXCEPT !.steps = steps]

(* ------------------------- the answers context ------------------------ *)

EmptyCtx == [n \in {} |-> None]

\* answers.get(name)
get(ctx, name) == IF name \in DOMAIN ctx THEN ctx[name] ELSE None

\* answers[name] = value
put(ctx, name, value) ==
    [n \in DOMAIN ctx \cup {name} |-> IF n = name THEN value ELSE ctx[n]]

(* ----------------------------- str.format ----------------------------- *)

\* index of the first "}" of s at or after i, 0 when there is none
RECURSIVE Closing(_, _)
Closing(s, i) ==
    IF i > Len(s) THEN 0 ELSE IF s[i] = "}" THEN i ELSE Closing(s, i + 1)

\* s.format of the keywords kw, from position i on, acc being the text produced so far
RECURSIVE format_from(_, _, _, _)
format_from(s, i, kw, acc) ==
    IF i > Len(s) THEN [ok |-> TRUE, exc |-> "", v |-> acc]
    ELSE IF s[i] = "{" THEN
        IF i < Len(s) /\ s[i + 1] = "{"
        THEN format_from(s, i + 2, kw, Append(acc, "{"))
        ELSE LET j == Closing(s, i + 1) IN
             IF j = 0 THEN [ok |-> FALSE, exc |-> "ValueError", v |-> <<>>]
             ELSE LET name == SubSeq(s, i + 1, j - 1) IN
                  IF name = <<>>
                  THEN [ok |-> FALSE, exc |-> "IndexError", v |-> <<>>]
                  ELSE IF name \notin DOMAIN kw
                  THEN [ok |-> FALSE, exc |-> "KeyError", v |-> <<>>]
                  ELSE format_from(s, j + 1, kw, acc \o str(kw[name]).v)
    ELSE IF s[i] = "}" THEN
        IF i < Len(s) /\ s[i + 1] = "}"
        THEN format_from(s, i + 2, kw, Append(acc, "}"))
        ELSE [ok |-> FALSE, exc |-> "ValueError", v |-> <<>>]
    ELSE format_from(s, i + 1, kw, Append(acc, s[i]))

format(s, kw) == format_from(s, 1, kw, <<>>)

(* ------------------------ the callables in use ------------------------ *)

NameQ == <<"q">>
NameA == <<"a">>

\* The functions a question is configured with, and the number of
\* arguments each takes.
Arity(f) ==
    CASE f = Fn("get_a") -> 1      \* lambda answers: answers["a"]
      [] f = Fn("has_a") -> 1      \* lambda answers: "a" in answers
      [] f = Fn("list_a") -> 1     \* lambda answers: [("A", answers.get("a")), "x"]
      [] f = Fn("nonempty") -> 2   \* lambda answers, current: len(current) > 0
      [] f = Fn("reject") -> 2     \* raises ValidationError("r")
      [] f = Fn("differs") -> 2    \* lambda answers, current: current != answers["a"]

\* prop(self.answers, *args)
Call(f, ctx, args) ==
    IF Len(args) + 1 # Arity(f) THEN Raise("TypeError", None, ctx)
    ELSE CASE f = Fn("get_a") ->
                IF NameA \in DOMAIN ctx THEN Ret(ctx[NameA], ctx)
                ELSE Raise("KeyError", None, ctx)
           [] f = Fn("has_a") ->
                Ret(IF NameA \in DOMAIN ctx THEN PyTrue ELSE PyFalse, ctx)
           [] f = Fn("list_a") ->
                Ret(PyList(<<Tuple(<<Str(<<"A">>), get(ctx, NameA)>>),
                             Str(<<"x">>)>>), ctx)
           [] f = Fn("nonempty") ->
                IF args[1].t \in {"str", "tuple", "list"}
                THEN Ret(IF bool(args[1]) THEN PyTrue ELSE PyFalse, ctx)
                ELSE Raise("TypeError", None, ctx)
           [] f = Fn("reject") ->
                Raise("ValidationError", Str(<<"r">>), ctx)
           [] f = Fn("differs") ->
                IF NameA \in DOMAIN ctx
                THEN Ret(IF py_eq(args[1], ctx[NameA]) THEN PyFalse ELSE PyTrue, ctx)
                ELSE Raise("KeyError", None, ctx)

(* ----------------------------- Question ------------------------------- *)

\* _solve with a template filled leniently: a missing name resolves to ""
_solve_lenient(prop, ctx, args) ==
    IF callable(prop) THEN Call(prop, ctx, args)
    ELSE IF isinstance_str(prop) THEN
        LET f == format(prop.v, ctx) IN
        IF f.ok THEN Ret(Str(f.v), ctx)
        ELSE IF f.exc = "KeyError" THEN Ret(Str(<<>>), ctx)
        ELSE Raise(f.exc, None, ctx)
    ELSE Ret(prop, ctx)

\* Question._solve(prop, *args)
_solve(prop, ctx, args) ==
    IF callable(prop) THEN Call(prop, ctx, args)
    ELSE IF isinstance_str(prop) THEN
        LET f == format(prop.v, ctx) IN
        IF f.ok THEN Ret(Str(f.v), ctx) ELSE Raise(f.exc, None, ctx)
    ELSE Ret(prop, ctx)

\* Question.__init__(name, message, choices, default, ignore, validate): the
\* object's fields, from the arguments a (the Path fields are set by Path)
Question_init(kind, a) ==
    [kind |-> kind,
     name |-> a.name,
     _message |-> a.message,
     _choices |-> IF bool(a.choices) THEN a.choices ELSE PyList(<<>>),
     _default |-> a.default,
     _ignore |-> a.ignore,
     _validate |-> a.validate,
     _path_type |-> None,
     _exists |-> None,
     _normalize_to_absolute_path |-> PyFalse]

\* Question.ignore
ignore(self, ctx) ==
    LET r == _solve(self._ignore, ctx, <<>>) IN
    IF r.ok THEN Ret(IF bool(r.val) THEN PyTrue ELSE PyFalse, r.answers) ELSE r

\* Question.message
message(self, ctx) == _solve(self._message, ctx, <<>>)

\* default with answers.setdefault in place of answers.get: the resolved
\* default is recorded in the context
default_recording(self, ctx) ==
    IF self.name \in DOMAIN ctx /\ bool(ctx[self.name]) THEN Ret(ctx[self.name], ctx)
    ELSE LET r == _solve(self._default, ctx, <<>>) IN
         IF r.ok THEN Ret(r.val, put(ctx, self.name, r.val)) ELSE r

\* Question.default
default(self, ctx) ==
    LET recorded == get(ctx, self.name) IN
    IF bool(recorded) THEN Ret(recorded, ctx)
    ELSE _solve(self._default, ctx, <<>>)

\* the items iterating over a resolved choice spec yields
Items(x) ==
    CASE x.t \in {"tuple", "list"} -> x.items
      [] x.t = "str" -> [i \in 1..Len(x.v) |-> Str(<<x.v[i]>>)]

\* Materialize without the isinstance(choice, tuple) test
Materialize_any_pair(choice) ==
    IF choice.t \in {"tuple", "list"} /\ Len(choice.items) = 2
    THEN TaggedValue(choice.items[1], choice.items[2])
    ELSE choice

\* one step of Question.choices_generator
Materialize(choice) ==
    IF choice.t = "tuple" /\ Len(choice.items) = 2
    THEN TaggedValue(choice.items[1], choice.items[2])
    ELSE choice

\* Question.choices
choices(self, ctx) ==
    LET r == _solve(self._choices, ctx, <<>>) IN
    IF ~r.ok THEN r
    ELSE IF r.val.t \notin {"tuple", "list", "str"}
    THEN Raise("TypeError", None, r.answers)
    ELSE LET items == Items(r.val) IN
         Ret(PyList([i \in 1..Len(items) |-> Materialize(items[i])]), r.answers)

\* validate without its `except Exception: pass`
validate_uncaught(self, ctx, current) ==
    LET r == _solve(self._validate, ctx, <<current>>) IN
    IF r.ok /\ bool(r.val) THEN Ret(None, r.answers)
    ELSE IF ~r.ok THEN r
    ELSE Raise("ValidationError", current, r.answers)

\* Question.validate(current)
validate(self, ctx, current) ==
    LET r == _solve(self._validate, ctx, <<current>>) IN
    IF r.ok /\ bool(r.val) THEN Ret(None, r.answers)
    ELSE IF ~r.ok /\ r.exc = "ValidationError" THEN r
    ELSE Raise("ValidationError", current, r.answers)

(* ------------------------- Text and its kinds ------------------------- *)

\* Text.__init__ (Password and Editor add nothing to it that is modelled)
Text_init(kind, a) ==
    Question_init(kind,
        [a EXCEPT !.default = IF bool(a.default) /\ ~callable(a.default)
                              THEN str(a.default) ELSE a.default])

(* ------------------------ os.path, on POSIX --------------------------- *)

\* s.split("/") from position i on; cur is the segment being read
RECURSIVE split_from(_, _, _, _)
split_from(s, i, cur, acc) ==
    IF i > Len(s) THEN Append(acc, cur)
    ELSE IF s[i] = "/" THEN split_from(s, i + 1, <<>>, Append(acc, cur))
    ELSE split_from(s, i + 1, Append(cur, s[i]), acc)

split(s) == split_from(s, 1, <<>>, <<>>)

\* "/".join(comps)
RECURSIVE join(_)
join(comps) ==
    IF Len(comps) = 0 THEN <<>>
    ELSE IF Len(comps) = 1 THEN comps[1]
    ELSE comps[1] \o <<"/">> \o join(Tail(comps))

\* s.rstrip("/")
RECURSIVE rstrip(_)
rstrip(s) ==
    IF Len(s) > 0 /\ s[Len(s)] = "/" THEN rstrip(SubSeq(s, 1, Len(s) - 1)) ELSE s

\* the environment of the process: $HOME and the working directory
Home == <<"/", "h">>
Cwd == <<"/", "d">>

\* os.path.expanduser(path); no user other than the caller is known
expanduser(path) ==
    IF Len(path) = 0 \/ path[1] # "~" THEN path
    ELSE LET rest == SubSeq(path, 2, Len(path))
             j == IF \E k \in 1..Len(rest) : rest[k] = "/"
                  THEN CHOOSE k \in 1..Len(rest) :
                         rest[k] = "/" /\ \A m \in 1..(k - 1) : rest[m] # "/"
                  ELSE Len(rest) + 1
         IN IF j # 1 THEN path
            ELSE LET out == rstrip(Home) \o rest IN
                 IF out = <<>> THEN <<"/">> ELSE out

\* the loop of os.path.normpath over the components
RECURSIVE norm_comps(_, _, _)
norm_comps(comps, initial_slashes, new_comps) ==
    IF Len(comps) = 0 THEN new_comps
    ELSE LET comp == Head(comps)
             rest == Tail(comps)
         IN IF comp = <<>> \/ comp = <<".">>
            THEN norm_comps(rest, initial_slashes, new_comps)
            ELSE IF comp # <<".", ".">>
                    \/ (initial_slashes = 0 /\ Len(new_comps) = 0)
                    \/ (Len(new_comps) > 0 /\ new_comps[Len(new_comps)] = <<".", ".">>)
            THEN norm_comps(rest, initial_slashes, Append(new_comps, comp))
            ELSE IF Len(new_comps) > 0
            THEN norm_comps(rest, initial_slashes,
                            SubSeq(new_comps, 1, Len(new_comps) - 1))
            ELSE norm_comps(rest, initial_slashes, new_comps)

\* os.path.normpath(path)
normpath(path) ==
    IF path = <<>> THEN <<".">>
    ELSE LET starts(n) == Len(path) >= n /\ \A k \in 1..n : path[k] = "/"
             initial_slashes ==
                 IF ~starts(1) THEN 0
                 ELSE IF starts(2) /\ ~starts(3) THEN 2 ELSE 1
             body == join(norm_comps(split(path), initial_slashes, <<>>))
             out == [k \in 1..initial_slashes |-> "/"] \o body
         IN IF out = <<>> THEN <<".">> ELSE out

\* os.path.abspath(path)
abspath(path) ==
    IF Len(path) > 0 /\ path[1] = "/" THEN normpath(path)
    ELSE IF Cwd[Len(Cwd)] = "/" THEN normpath(Cwd \o path)
    ELSE normpath(Cwd \o <<"/">> \o path)

\* os.path.basename(p)
basename(p) == LET comps == split(p) IN comps[Len(comps)]

(* --------------------------- the filesystem --------------------------- *)

\* A filesystem maps each node (the sequence of names from the root) to
\* "dir" or "file"; it has no symbolic links.
Root == <<>>

\* path resolution over the components left, from the node cur
RECURSIVE walk(_, _, _)
walk(fsys, cur, comps) ==
    IF Len(comps) = 0 THEN [found |-> TRUE, node |-> cur]
    ELSE IF fsys[cur] # "dir" THEN [found |-> FALSE, node |-> cur]
    ELSE LET comp == Head(comps) IN
         IF comp = <<>> \/ comp = <<".">> THEN walk(fsys, cur, Tail(comps))
         ELSE IF comp = <<".", ".">>
         THEN walk(fsys, IF Len(cur) = 0 THEN cur ELSE SubSeq(cur, 1, Len(cur) - 1),
                   Tail(comps))
         ELSE IF Len(comp) > NameMax \/ Append(cur, comp) \notin DOMAIN fsys
         THEN [found |-> FALSE, node |-> cur]
         ELSE walk(fsys, Append(cur, comp), Tail(comps))

\* what os.stat(path) finds: "dir", "file", or "none" when it raises OSError
stat(fsys, path) ==
    IF path = <<>> THEN "none"
    ELSE LET start == IF path[1] = "/" THEN Root
                      ELSE walk(fsys, Root, split(Cwd)).node
             w == walk(fsys, start, split(path))
         IN IF w.found THEN fsys[w.node] ELSE "none"

isfile(fsys, path) == stat(fsys, path) = "file"
isdir(fsys, path) == stat(fsys, path) = "dir"
exists(fsys, path) == stat(fsys, path) # "none"

\* is_pathname_valid(pathname), for a str: os.lstat("/" + part) reports
\* ENAMETOOLONG for a part longer than NAME_MAX, every other fault is ignored
is_pathname_valid(pathname) ==
    /\ pathname # <<>>
    /\ LET parts == split(pathname) IN
       \A k \in 1..Len(parts) : Len(parts[k]) <= NameMax

(* -------------------------------- Path -------------------------------- *)

ANY == Str(<<"a", "n", "y">>)
FILE == Str(<<"f", "i", "l", "e">>)
DIRECTORY == Str(<<"d", "i", "r", "e", "c", "t", "o", "r", "y">>)

\* Path.normalize_value(value)
normalize_value(self, value) ==
    LET expanded == expanduser(value) IN
    IF bool(self._normalize_to_absolute_path) THEN abspath(expanded) ELSE expanded

\* Path_rejects with `exists=False` taken for `exists=None`
Path_rejects_falsy_exists(self, fsys, current) ==
    IF self._path_type = FILE THEN
        IF ~bool(self._exists) /\ basename(current) = <<>> THEN TRUE
        ELSE bool(self._exists) /\ ~isfile(fsys, current)
    ELSE IF self._path_type = DIRECTORY THEN
        IF ~bool(self._exists) /\ basename(current) # <<>> THEN TRUE
        ELSE bool(self._exists) /\ ~isdir(fsys, current)
    ELSE bool(self._exists) /\ ~exists(fsys, current)

\* the checks of Path.validate that follow the pathname check: TRUE when one
\* of them raises ValidationError
Path_rejects(self, fsys, current) ==
    IF self._path_type = FILE THEN
        IF self._exists = None /\ basename(current) = <<>> THEN TRUE
        ELSE IF bool(self._exists) /\ ~isfile(fsys, current) THEN TRUE
        ELSE IF self._exists # None /\ ~bool(self._exists) /\ isfile(fsys, current)
        THEN TRUE
        ELSE FALSE
    ELSE IF self._path_type = DIRECTORY THEN
        IF self._exists = None /\ basename(current) # <<>> THEN TRUE
        ELSE IF bool(self._exists) /\ ~isdir(fsys, current) THEN TRUE
        ELSE IF self._exists # None /\ ~bool(self._exists) /\ isdir(fsys, current)
        THEN TRUE
        ELSE FALSE
    ELSE IF bool(self._exists) /\ ~exists(fsys, current) THEN TRUE
    ELSE IF self._exists # None /\ ~bool(self._exists) /\ exists(fsys, current)
    THEN TRUE
    ELSE FALSE

\* the filesystem is probed (isfile, isdir, exists) only past the
\* `self._exists is None and ...` tests, which short-circuit
Path_probes(self) == self._exists # None

\* Path.validate(current) past the call of Question.validate, which
\* returned base: the null check, the normalization, the pathname check
\* and the existence policy
Path_after_base(self, fsys, current, base) ==
    IF current = None
    THEN WithSteps(Raise("ValidationError", current, base.answers),
                   <<"base", "null">>)
    ELSE IF ~isinstance_str(current)
    THEN WithSteps(Raise("TypeError", None, base.answers),
                   <<"base", "null", "normalize">>)
    ELSE LET normalized == normalize_value(self, current.v) IN
         IF ~is_pathname_valid(normalized)
         THEN WithSteps(Raise("ValidationError", Str(normalized), base.answers),
                        <<"base", "null", "normalize", "wellformed">>)
         ELSE LET steps == <<"base", "null", "normalize", "wellformed">>
                           \o (IF Path_probes(self) THEN <<"probe">> ELSE <<>>)
              IN IF Path_rejects(self, fsys, normalized)
                 THEN WithSteps(Raise("ValidationError", Str(normalized),
                                      base.answers), steps)
                 ELSE WithSteps(Ret(None, base.answers), steps)

\* Path.validate with the null check moved before the base validation
Path_validate_null_first(self, ctx, fsys, current) ==
    IF current = None
    THEN WithSteps(Raise("ValidationError", current, ctx), <<"null">>)
    ELSE LET base == validate(self, ctx, current) IN
         IF ~base.ok THEN WithSteps(base, <<"null", "base">>)
         ELSE Path_after_base(self, fsys, current, base)

\* Path.validate(current)
Path_validate(self, ctx, fsys, current) ==
    LET base == validate(self, ctx, current) IN
    IF ~base.ok THEN WithSteps(base, <<"base">>)
    ELSE Path_after_base(self, fsys, current, base)

\* the fields of a Path once Path.__init__ has assigned them
Path_fields(a) ==
    [Text_init("path", a)
        EXCEPT !._path_type = a.path_type,
               !._exists = a.exists,
               !._normalize_to_absolute_path = a.normalize_to_absolute_path]

\* Path.__init__ with `if default:` in place of `if default is not None:`
Path_init_truthy_default(a, fsys) ==
    IF bool(a.default) THEN
        LET r == Path_validate(Path_fields(a), EmptyCtx, fsys, a.default) IN
        IF ~r.ok /\ r.exc = "ValidationError"
        THEN WithSteps(Raise("ValueError", None, EmptyCtx), r.steps)
        ELSE r
    ELSE Ret(None, EmptyCtx)

\* Path.__init__: the outcome of the construction
Path_init(a, fsys) ==
    IF a.default # None THEN
        LET r == Path_validate(Path_fields(a), EmptyCtx, fsys, a.default) IN
        IF ~r.ok /\ r.exc = "ValidationError"
        THEN WithSteps(Raise("ValueError", None, EmptyCtx), r.steps)
        ELSE r
    ELSE Ret(None, EmptyCtx)

(* ------------------- the inputs the model ranges over ------------------ *)

TemplateA == Str(<<"{", "a", "}">>)

Messages == {Str(<<"m">>), TemplateA}

Defaults == {None, Str(<<"d">>), TemplateA, Fn("get_a")}

Ignores == {PyFalse, TemplateA}

Validates == {PyTrue, TemplateA, Fn("nonempty"), Fn("reject"), Fn("differs")}

ChoiceSpecs ==
    {None,
     PyList(<<Tuple(<<Str(<<"Y">>), PyInt(<<"1">>)>>),
              PyList(<<Str(<<"N">>), Int0>>),
              Tuple(<<Str(<<"a">>), Str(<<"b">>), Str(<<"c">>)>>),
              Int7>>),
     TemplateA,
     Fn("list_a")}

TextKinds == {"text", "password", "editor"}

TextDefaults ==
    {None, Str(<<"d">>), Str(<<>>), Int0, Int7, PyFalse, PyTrue, Fn("get_a")}

PathTypes == {ANY, FILE, DIRECTORY}

Existences == {None, PyTrue, PyFalse}

PathDefaults == {None, Str(<<"f">>), Str(<<"/", "d", "/">>), Str(<<>>), Int7}

PathValidates == {PyTrue, TemplateA, Fn("nonempty")}

\* the candidates handed to validate: of any question, and of a Path
BaseCandidates == {None, Int7, Str(<<>>), Str(<<"f">>)}

PathCandidates ==
    {None, Int7, Str(<<>>),
     Str(<<"f">>), Str(<<"/", "d">>), Str(<<"/", "d", "/">>),
     Str(<<"a", "/", "b">>), Str(<<"a", "/", "b", "/">>),
     Str(<<"~">>), Str(<<"~", "/">>),
     Str(<<"a", "a", "a", "a">>)}

\* the values the driver records
Recorded == {Str(<<"v">>), Str(<<>>), Int0, PyFalse}

Names == {NameQ, NameA}

\* the signature defaults of Question.__init__ and Path.__init__
NoArgs ==
    [name |-> NameQ, message |-> Str(<<>>), choices |-> None, default |-> None,
     ignore |-> PyFalse, validate |-> PyTrue,
     path_type |-> ANY, exists |-> None, normalize_to_absolute_path |-> PyFalse]

\* the host's filesystem: /d and /h are directories, /d/f is a regular file
FileSystem ==
    (Root :> "dir") @@ (<<<<"d">>>> :> "dir") @@ (<<<<"h">>>> :> "dir")
        @@ (<<<<"d">>, <<"f">>>> :> "file")

\* the node another process creates and removes
Volatile == <<<<"d">>, <<"f">>>>

(* ------------------------------ the state ------------------------------ *)

\* q: the question object (NoQuestion before one is constructed)
\* answers: the context q.answers refers to, which the driver writes
\* fs: the filesystem of the host
\* last: the last operation, its inputs, its outcome and the context before it
NoQuestion == [Question_init("none", NoArgs) EXCEPT !.name = <<>>]

Op(op, cur, a, res, pre) ==
    [op |-> op, cur |-> cur, args |-> a, res |-> res, pre |-> pre]

Init ==
    /\ q = NoQuestion
    /\ answers = EmptyCtx
    /\ fs = FileSystem
    /\ last = Op("init", None, NoArgs, Ret(None, EmptyCtx), EmptyCtx)

\* Question(name, message, choices, default, ignore, validate)
ConstructQuestion ==
    /\ q = NoQuestion
    /\ \E m \in Messages, c \in ChoiceSpecs, d \in Defaults, i \in Ignores,
          v \in Validates :
         LET a == [NoArgs EXCEPT !.message = m, !.choices = c, !.default = d,
                                 !.ignore = i, !.validate = v]
         IN /\ q' = Question_init("base question", a)
            /\ answers' = EmptyCtx
            /\ last' = Op("Question", None, a, Ret(None, EmptyCtx), answers)
    /\ UNCHANGED fs

\* Text(name, default=...), Password(...), Editor(...)
ConstructText ==
    /\ q = NoQuestion
    /\ \E k \in TextKinds, d \in TextDefaults :
         LET a == [NoArgs EXCEPT !.default = d]
         IN /\ q' = Text_init(k, a)
            /\ answers' = EmptyCtx
            /\ last' = Op("Text", None, a, Ret(None, EmptyCtx), answers)
    /\ UNCHANGED fs

\* Path(name, default, path_type, exists, normalize_to_absolute_path, validate)
ConstructPath ==
    /\ q = NoQuestion
    /\ \E d \in PathDefaults, t \in PathTypes, e \in Existences,
          n \in {PyFalse, PyTrue}, v \in PathValidates :
         LET a == [NoArgs EXCEPT !.default = d, !.path_type = t, !.exists = e,
                                 !.normalize_to_absolute_path = n, !.validate = v]
             r == Path_init(a, fs)
         IN /\ q' = IF r.ok THEN Path_fields(a) ELSE NoQuestion
            /\ answers' = r.answers
            /\ last' = Op("Path", None, a, r, answers)
    /\ UNCHANGED fs

\* the driver: answers[name] = value
DriverWrite ==
    /\ q # NoQuestion
    /\ \E n \in Names, v \in Recorded :
         /\ answers' = put(answers, n, v)
         /\ last' = Op("write", v, NoArgs, Ret(None, EmptyCtx), EmptyCtx)
    /\ UNCHANGED <<q, fs>>

ReadMessage ==
    /\ q # NoQuestion
    /\ LET r == message(q, answers) IN
       /\ answers' = r.answers
       /\ last' = Op("message", None, NoArgs, r, answers)
    /\ UNCHANGED <<q, fs>>

ReadDefault ==
    /\ q # NoQuestion
    /\ LET r == default(q, answers) IN
       /\ answers' = r.answers
       /\ last' = Op("default", None, NoArgs, r, answers)
    /\ UNCHANGED <<q, fs>>

ReadIgnore ==
    /\ q # NoQuestion
    /\ LET r == ignore(q, answers) IN
       /\ answers' = r.answers
       /\ last' = Op("ignore", None, NoArgs, r, answers)
    /\ UNCHANGED <<q, fs>>

ReadChoices ==
    /\ q # NoQuestion
    /\ LET r == choices(q, answers) IN
       /\ answers' = r.answers
       /\ last' = Op("choices", None, NoArgs, r, answers)
    /\ UNCHANGED <<q, fs>>

\* the host: another process removes /d/f, or creates it again
FsChange ==
    /\ fs' = IF Volatile \in DOMAIN fs
             THEN [n \in DOMAIN fs \ {Volatile} |-> fs[n]]
             ELSE fs @@ (Volatile :> "file")
    /\ last' = Op("fs", None, NoArgs, Ret(None, EmptyCtx), EmptyCtx)
    /\ UNCHANGED <<q, answers>>

\* q.validate(current), which Path overrides
Validate ==
    /\ q # NoQuestion
    /\ \E current \in IF q.kind = "path" THEN PathCandidates ELSE BaseCandidates :
         LET r == IF q.kind = "path" THEN Path_validate(q, answers, fs, current)
                  ELSE validate(q, answers, current)
         IN /\ answers' = r.answers
            /\ last' = Op("validate", current, NoArgs, r, answers)
    /\ UNCHANGED <<q, fs>>

Next ==
    \/ ConstructQuestion
    \/ ConstructText
    \/ ConstructPath
    \/ DriverWrite
    \/ FsChange
    \/ ReadMessage
    \/ ReadDefault
    \/ ReadIgnore
    \/ ReadChoices
    \/ Validate

Spec == Init /\ [][Next]_vars

(* ------------------------------ the claims ----------------------------- *)

\* the names the placeholders of the template s refer to ("{{" is an escape)
Placeholders(s) ==
    {SubSeq(s, i + 1, j - 1) : <<i, j>> \in
        {p \in (1..Len(s)) \X (1..Len(s)) :
            /\ p[1] + 1 < p[2]
            /\ s[p[1]] = "{" /\ s[p[2]] = "}"
            /\ (p[1] = 1 \/ s[p[1] - 1] # "{")
            /\ \A k \in (p[1] + 1)..(p[2] - 1) : s[k] \notin {"{", "}"}}}

\* prop is a template and ctx lacks a name one of its placeholders refers to
LacksName(prop, ctx) ==
    isinstance_str(prop) /\ \E n \in Placeholders(prop.v) : n \notin DOMAIN ctx

\* the last operation failed with exc
Failed(exc) == ~last.res.ok /\ last.res.exc = exc

\* C1 (as claimed): whenever the context holds an entry under the question's
\* own name, reading `default` returns exactly that entry, whatever the
\* recorded value (False, 0 and "" included) and whatever the configured
\* default; the configured default is resolved only when no entry is recorded.
C1_RecordedAnswerWins ==
    last.op = "default" =>
        IF q.name \in DOMAIN last.pre
        THEN last.res.ok /\ last.res.val = last.pre[q.name]
        ELSE last.res = _solve(q._default, last.pre, <<>>)

\* C2: validate of the base Question returns normally exactly when the
\* validate spec resolves, against the context and the candidate, to a truthy
\* value; otherwise it fails with ValidationError, and no other error; when
\* the resolution returned a falsy value or raised an error that is not a
\* ValidationError, the ValidationError carries the candidate.
C2_ValidateOutcomes ==
    (last.op = "validate" /\ q.kind = "base question") =>
        LET r == _solve(q._validate, last.pre, <<last.cur>>) IN
        /\ last.res.ok <=> (r.ok /\ bool(r.val))
        /\ ~last.res.ok => last.res.exc = "ValidationError"
        /\ ((r.ok /\ ~bool(r.val)) \/ (~r.ok /\ r.exc # "ValidationError"))
              => (Failed("ValidationError") /\ last.res.val = last.cur)
        /\ (~r.ok /\ r.exc = "ValidationError")
              => (Failed("ValidationError") /\ last.res.val = r.val)

\* C2 witness: the validator raised a TypeError, and validate failed with a
\* ValidationError carrying the candidate.
C2_Witness ==
    /\ last.op = "validate" /\ q.kind = "base question"
    /\ LET r == _solve(q._validate, last.pre, <<last.cur>>) IN
       ~r.ok /\ r.exc = "TypeError"
    /\ Failed("ValidationError") /\ last.res.val = last.cur

\* C3 (as claimed): resolving a template property (message, default, ignore,
\* choices or the validate spec) against a context that lacks a name one of
\* its placeholders refers to fails with the template's KeyError, which
\* reaches the caller.
C3_TemplateErrorPropagates ==
    /\ (last.op = "message" /\ LacksName(q._message, last.pre)) => Failed("KeyError")
    /\ (last.op = "ignore" /\ LacksName(q._ignore, last.pre)) => Failed("KeyError")
    /\ (last.op = "choices" /\ LacksName(q._choices, last.pre)) => Failed("KeyError")
    /\ (last.op = "default" /\ q.name \notin DOMAIN last.pre
          /\ LacksName(q._default, last.pre)) => Failed("KeyError")
    /\ (last.op = "validate" /\ LacksName(q._validate, last.pre)) => Failed("KeyError")

\* C3 (amended): for message, ignore and choices, and for default when no
\* entry is recorded under the question's own name, the template's KeyError
\* reaches the caller; for the validate spec, validate turns it into a
\* ValidationError carrying the candidate.
C3_TemplateErrors ==
    /\ (last.op = "message" /\ LacksName(q._message, last.pre)) => Failed("KeyError")
    /\ (last.op = "ignore" /\ LacksName(q._ignore, last.pre)) => Failed("KeyError")
    /\ (last.op = "choices" /\ LacksName(q._choices, last.pre)) => Failed("KeyError")
    /\ (last.op = "default" /\ q.name \notin DOMAIN last.pre
          /\ LacksName(q._default, last.pre)) => Failed("KeyError")
    /\ (last.op = "validate" /\ LacksName(q._validate, last.pre))
          => (Failed("ValidationError") /\ last.res.val = last.cur)

\* C3 witness: `default` was read with a template default, another answer
\* recorded but not the one the template names, and the KeyError came out.
C3_Witness ==
    /\ last.op = "default" /\ q.name \notin DOMAIN last.pre
    /\ LacksName(q._default, last.pre)
    /\ Failed("KeyError")

\* C4: constructing a Path with a non-null default succeeds if and only if
\* Path.validate of that default, by a Path of the same settings and an empty
\* context, succeeds; when it fails the construction fails (with ValueError
\* when validate raised ValidationError, which never escapes) and leaves no
\* question; with a null default no validation runs and it succeeds.
C4_PathDefaultValidated ==
    last.op = "Path" =>
        IF last.args.default # None
        THEN LET v == Path_validate(Path_fields(last.args), EmptyCtx, fs,
                                    last.args.default) IN
             /\ last.res.ok <=> v.ok
             /\ last.res.ok => q = Path_fields(last.args)
             /\ ~last.res.ok => (q = NoQuestion /\ last.res.exc # "ValidationError")
             /\ (~v.ok /\ v.exc = "ValidationError") => Failed("ValueError")
        ELSE last.res.ok /\ last.res.steps = <<>> /\ q = Path_fields(last.args)

\* C4 witness: a Path whose default is the empty string was refused.
C4_Witness ==
    /\ last.op = "Path" /\ last.args.default = Str(<<>>)
    /\ Failed("ValueError") /\ q = NoQuestion

\* the precondition of C5 and C6: a str candidate that passes the base
\* validation and whose normalized form is a well-formed pathname
PathPolicyReached ==
    /\ last.op = "validate" /\ q.kind = "path"
    /\ isinstance_str(last.cur)
    /\ validate(q, last.pre, last.cur).ok
    /\ is_pathname_valid(normalize_value(q, last.cur.v))

\* C5: with `exists` specified, validate of such a candidate succeeds, for
\* exists=True, if and only if the normalized path is what path_type demands
\* (a regular file, a directory, anything that exists), and for exists=False
\* if and only if it is not; every rejection is a ValidationError.
C5_ExistencePolicy ==
    (PathPolicyReached /\ q._exists # None) =>
        LET kind == stat(fs, normalize_value(q, last.cur.v))
            demanded == CASE q._path_type = FILE -> kind = "file"
                          [] q._path_type = DIRECTORY -> kind = "dir"
                          [] q._path_type = ANY -> kind # "none"
        IN /\ last.res.ok <=> (demanded <=> (q._exists = PyTrue))
           /\ ~last.res.ok => last.res.exc = "ValidationError"

\* C5 witness: a directory question with exists=False rejected a path that
\* is a directory.
C5_Witness ==
    /\ PathPolicyReached /\ q._exists = PyFalse /\ q._path_type = DIRECTORY
    /\ stat(fs, normalize_value(q, last.cur.v)) = "dir"
    /\ Failed("ValidationError")

\* C6 (as claimed): with `exists` unspecified and either setting of
\* normalize_to_absolute_path, a directory question accepts such a candidate
\* (itself a well-formed pathname) exactly when its final segment is empty, a file question exactly when it
\* is not, and an `any` question always.
C6_FinalSegmentPolicy ==
    (PathPolicyReached /\ is_pathname_valid(last.cur.v) /\ q._exists = None) =>
        LET empty_final == basename(last.cur.v) = <<>> IN
        /\ q._path_type = DIRECTORY => (last.res.ok <=> empty_final)
        /\ q._path_type = FILE => (last.res.ok <=> ~empty_final)
        /\ q._path_type = ANY => last.res.ok
        /\ ~last.res.ok => last.res.exc = "ValidationError"

\* C7: `choices` returns the choice spec as resolved against the context of
\* that access, item by item and in order: a 2-element tuple as a
\* TaggedValue of its label and value, any other item unchanged.
C7_ChoicesMaterialized ==
    last.op = "choices" =>
        LET r == _solve(q._choices, last.pre, <<>>) IN
        (r.ok /\ r.val.t \in {"list", "tuple"}) =>
            /\ last.res.ok /\ last.res.val.t = "list"
            /\ Len(last.res.val.items) = Len(r.val.items)
            /\ \A i \in 1..Len(r.val.items) :
                 LET item == r.val.items[i] IN
                 last.res.val.items[i] =
                     IF item.t = "tuple" /\ Len(item.items) = 2
                     THEN TaggedValue(item.items[1], item.items[2])
                     ELSE item

\* C7 witness: the static spec of one pair, one 2-element list, one triple
\* and one scalar came out as 4 items, the first of them tagged.
C7_Witness ==
    /\ last.op = "choices" /\ q._choices.t = "list" /\ last.res.ok
    /\ Len(last.res.val.items) = 4
    /\ last.res.val.items[1] = TaggedValue(Str(<<"Y">>), PyInt(<<"1">>))
    /\ last.res.val.items[2] = PyList(<<Str(<<"N">>), Int0>>)

\* C7 witness of the re-resolution: computed choices show the answer the
\* driver recorded before this access.
C7_WitnessFresh ==
    /\ last.op = "choices" /\ q._choices = Fn("list_a") /\ last.res.ok
    /\ NameA \in DOMAIN answers
    /\ last.res.val.items[1] = TaggedValue(Str(<<"A">>), answers[NameA])

\* C8: no operation of a question (reading message, default, ignore or
\* choices, validate, the construction) changes the answers context, whether
\* it returns or raises.
C8_ContextUntouched ==
    last.op \in {"message", "default", "ignore", "choices", "validate",
                 "Question", "Text", "Path"}
        => answers = last.pre

\* C8 witness: `default` resolved a computed default from a context holding
\* another answer, and the context is as it was.
C8_Witness ==
    /\ last.op = "default" /\ q._default = Fn("get_a") /\ last.res.ok
    /\ DOMAIN last.pre = {NameA}
    /\ answers = last.pre

\* C9 (as claimed): a text-kind question stores a non-callable, non-null
\* literal default as its string form (0, False and "" included), and a null
\* or callable default unchanged.
C9_DefaultCoerced ==
    (last.op \in {"Text", "Path"} /\ last.res.ok) =>
        q._default = IF last.args.default # None /\ ~callable(last.args.default)
                     THEN str(last.args.default)
                     ELSE last.args.default

\* C10: Path.validate runs the base validation first; when that fails, its
\* error comes out unchanged and nothing else is done; a null candidate that
\* passes it is rejected with ValidationError before any normalization,
\* pathname check or probe of the filesystem.
C10_BaseValidationFirst ==
    (last.op = "validate" /\ q.kind = "path") =>
        LET base == validate(q, last.pre, last.cur) IN
        /\ Len(last.res.steps) >= 1 /\ last.res.steps[1] = "base"
        /\ ~base.ok => (/\ last.res.steps = <<"base">>
                        /\ ~last.res.ok
                        /\ last.res.exc = base.exc
                        /\ last.res.val = base.val)
        /\ (base.ok /\ last.cur = None)
              => (Failed("ValidationError") /\ last.res.steps = <<"base", "null">>)

\* C10 witness: a null candidate passed the base validation of a Path and
\* was rejected at the null check.
C10_Witness ==
    /\ last.op = "validate" /\ q.kind = "path" /\ last.cur = None
    /\ validate(q, last.pre, last.cur).ok
    /\ Failed("ValidationError") /\ last.res.steps = <<"base", "null">>

====
